---- MODULE Spec2Model ----
(***************************************************************************)
(* Tamper-evident audit ledger: the ingest pipeline (Kafka consumer ->     *)
(* AuditService.ProcessAndStoreEvent -> AuditRepository.CreateEvent), the  *)
(* read path (AuditRepository.GetEvents -> AuditService.GetAuditTrail) and *)
(* the signature primitive of crypto.FieldEncryptor.                       *)
(*                                                                         *)
(* Strings are sequences of tokens, so that fmt.Sprintf's concatenation    *)
(* with literal "|" separators is modelled as concatenation.  A MAC is a   *)
(* symbolic term over (secret, data): two MACs are equal exactly when the  *)
(* secret and the signed string are equal.  Times are ticks; a second has  *)
(* TicksPerSecond ticks, and time.RFC3339 prints whole seconds only.       *)
(***************************************************************************)
EXTENDS Integers, Sequences, FiniteSets, TLC

\* ---------------------------------------------------------------- bounds
MaxMsgs == 2
MaxTime == 3
TicksPerSecond == 2
MaxLimit == 2
MaxOffset == 1
MaxTamper == 1
MaxRotations == 1
MaxVersion == 2
MaxArchives == 2
MaxSeals == 2
MaxConsumeErrors == 2
TicksPerDay == 2

\* ------------------------------------------------------------- constants
maxRetries == 3

Partitions == {"p0", "p1"}
NilUUID == "00000000"
ZeroTime == 0
Times == 1..MaxTime
None == "none"
NoTime == -1
HmacSecret == "audit-hmac-secret"
InitialKeyVersion == 1

\* topic a partition claim belongs to (config defaults)
Topic(p) == IF p = "p0" THEN "banking.audit.events" ELSE "banking.transactions"

\* ------------------------------------------------------------ bus messages
\* a message value: undecodable bytes, or a JSON object whose recognised keys
\* are event_id, event_type and user_id ("absent": key missing or not a string,
\* "bad": a string that is no UUID)
Garbage == [decodable |-> FALSE, event_id |-> "absent", event_type |-> <<>>, user_id |-> "absent"]
MsgValues ==
    { Garbage,
      [decodable |-> TRUE, event_id |-> "e1", event_type |-> <<"LOGIN">>, user_id |-> "u1"],
      [decodable |-> TRUE, event_id |-> "absent", event_type |-> <<>>, user_id |-> "absent"],
      [decodable |-> TRUE, event_id |-> NilUUID, event_type |-> <<"WIRE", "|", "OUT">>, user_id |-> "bad"] }

\* the n-th result of uuid.New()
FreshUUID(n) == "g" \o ToString(n)

WellFormedUUIDs == {"e1", "e2", "u1", "u2", NilUUID} \cup {FreshUUID(n) : n \in 1..MaxMsgs}

\* uuid.Parse
UUIDParse(s) == IF s \in WellFormedUUIDs THEN [ok |-> TRUE, id |-> s] ELSE [ok |-> FALSE, id |-> NilUUID]
\* uuid.UUID.String
UUIDString(id) == <<id>>

\* ---------------------------------------------------------------- crypto
\* time.Time.Format(time.RFC3339): second precision
FormatRFC3339(t) == <<ToString(t \div TicksPerSecond)>>

\* FieldEncryptor.HMAC: hex(HMAC-SHA256(hmacSecret, data))
HMAC(data) == [key |-> HmacSecret, data |-> data]
EmptySignature == [key |-> "", data |-> <<>>]

\* FieldEncryptor.VerifyHMAC
VerifyHMAC(data, signature) == HMAC(data) = signature

BindingString(eventID, userID, action, timestamp, result) ==
    eventID \o <<"|">> \o userID \o <<"|">> \o action \o <<"|">> \o timestamp \o <<"|">> \o result

GenerateDigitalSignature(eventID, userID, action, timestamp, result) ==
    HMAC(BindingString(eventID, userID, action, timestamp, result))

VerifyDigitalSignature(eventID, userID, action, timestamp, result, signature) ==
    VerifyHMAC(BindingString(eventID, userID, action, timestamp, result), signature)

\* ----------------------------------------------------------------- state
VARIABLES
    ledger,          \* rows of audit_events, in insertion order
    committed,       \* history: each row as it was when its INSERT committed
    origin,          \* history: the claim and offset each row was ingested from
    currentVersion,  \* FieldEncryptor.currentVersion
    uuidCounter,     \* number of uuid.New() results in use
    clock,           \* the latest wall-clock reading time.Now() returned
    delivered,       \* per claim: number of messages claim.Messages() has yielded
    pc,              \* per claim: position of the handler goroutine
    cur,             \* per claim: the message being processed
    auditEvent,      \* per claim: processMessage's auditEvent
    retry,           \* per claim: processMessage's loop index i
    hist,            \* history, per claim: what processMessage did for cur
    marked,          \* per claim: offsets passed to session.MarkMessage
    dispatched,      \* events handed to asyncIndexEvent
    resp,            \* the result of a read operation, until its caller has taken it
    tampered,        \* number of out-of-band changes made to stored rows
    cancelled,       \* the context given to AuditConsumer.Start is cancelled
    cancelSnap,      \* history, per claim: where the handler was when that happened
    indexRuns,       \* history: the asyncIndexEvent goroutines that have ended
    keys,            \* FieldEncryptor.keys
    config,          \* the arguments NewFieldEncryptor was called with
    constructErr,    \* the error NewFieldEncryptor returned ("" for nil)
    rot,             \* the goroutine running RotateKey: position and arguments
    rotations,       \* number of RotateKey calls made
    observed,        \* what the last reader of the key registry saw
    query,           \* the filter and the result of a filtered ledger query, until taken
    objects,         \* the archive bucket: the objects in it, each a key and a body
    archives,        \* number of ArchiveBatch calls made
    lastArchive,     \* the last ArchiveBatch call: the key it built and the error it returned
    enc,             \* the goroutine running Encrypt: position and locals
    sealed,          \* history: what Encrypt has returned, ciphertext and version
    opened,          \* the last Decrypt call: its arguments and what it returned
    driver           \* AuditConsumer.Start: position, Consume errors seen, value returned

cancelVars == <<cancelled, cancelSnap>>
registryVars == <<keys, config, constructErr, rot, rotations, observed>>
archiveVars == <<objects, archives, lastArchive>>
cipherVars == <<enc, sealed, opened>>
extVars == <<cancelVars, indexRuns, registryVars, query, archiveVars, cipherVars, driver>>

vars == <<ledger, committed, origin, currentVersion, uuidCounter, clock, delivered, pc, cur,
          auditEvent, retry, hist, marked, dispatched, resp, tampered, extVars>>

consumerVars == <<delivered, pc, cur, auditEvent, retry, hist, marked>>
storeVars == <<ledger, committed, origin>>

\* ------------------------------------------------------------ domain
\* domain.NewAuditEvent
NewAuditEvent(userID, action, resource, resourceID, newID, now1, now2) ==
    [ EventID |-> newID,
      TransactionID |-> None,
      UserID |-> userID,
      ActionType |-> action,
      ResourceType |-> resource,
      ResourceID |-> resourceID,
      ServiceSource |-> "",
      IPAddress |-> "",
      Timestamp |-> now1,
      Result |-> <<"PENDING">>,
      DigitalSignature |-> EmptySignature,
      Metadata |-> <<>>,
      EncryptionKeyID |-> 0,
      CreatedAt |-> now2 ]

NoEvent == NewAuditEvent(NilUUID, <<>>, "", "", NilUUID, ZeroTime, ZeroTime)
NoMessage == [offset |-> 0, value |-> Garbage]

\* no read result: the step just taken was no read
NoResp == [op |-> "", err |-> "", eventID |-> None, page |-> <<>>, queried |-> <<>>,
           signature |-> EmptySignature, found |-> FALSE]

\* a bug: the error of json.Unmarshal is ignored
JSONUnmarshalLenient(value) == [ok |-> TRUE, raw |-> value]

\* json.Unmarshal(msg.Value, &genericEvent)
JSONUnmarshal(value) == [ok |-> value.decodable, raw |-> value]

\* json.Marshal of the decoded map
JSONMarshal(raw) == <<raw>>

\* a bug: the mapper does not record the topic the message came from
mapToAuditEventNoTopic(raw, topic, newID, now1, now2) ==
    LET event == NewAuditEvent(NilUUID, <<"UNKNOWN">>, "UNKNOWN", "0", newID, now1, now2)
        eid == UUIDParse(raw.event_id)
        e1 == IF raw.event_id # "absent" /\ eid.ok THEN [event EXCEPT !.EventID = eid.id] ELSE event
        e2 == IF raw.event_type # <<>> THEN [e1 EXCEPT !.ActionType = raw.event_type] ELSE e1
        uid == UUIDParse(raw.user_id)
        e3 == IF raw.user_id # "absent" /\ uid.ok THEN [e2 EXCEPT !.UserID = uid.id] ELSE e2
    IN [e3 EXCEPT !.Metadata = JSONMarshal(raw)]

\* auditConsumerHandler.mapToAuditEvent
mapToAuditEvent(raw, topic, newID, now1, now2) ==
    LET event == [NewAuditEvent(NilUUID, <<"UNKNOWN">>, "UNKNOWN", "0", newID, now1, now2)
                     EXCEPT !.ServiceSource = topic]
        eid == UUIDParse(raw.event_id)
        e1 == IF raw.event_id # "absent" /\ eid.ok THEN [event EXCEPT !.EventID = eid.id] ELSE event
        e2 == IF raw.event_type # <<>> THEN [e1 EXCEPT !.ActionType = raw.event_type] ELSE e1
        uid == UUIDParse(raw.user_id)
        e3 == IF raw.user_id # "absent" /\ uid.ok THEN [e2 EXCEPT !.UserID = uid.id] ELSE e2
    IN [e3 EXCEPT !.Metadata = JSONMarshal(raw)]

\* ------------------------------------------------------------ ledger store
\* the order of the UUID column type on the ids of the model
UUIDRank(id) ==
    CASE id = NilUUID -> 0
      [] id = "e1" -> 1
      [] id = "e2" -> 2
      [] id = "g1" -> 3
      [] id = "g2" -> 4
      [] OTHER -> 5

\* a bug: the table has no primary key
UniqueViolationNoKey(rows, e) == FALSE

\* PRIMARY KEY (event_id) of audit_events
UniqueViolation(rows, e) == \E i \in 1..Len(rows) : rows[i].EventID = e.EventID

\* a bug: INSERT ... ON CONFLICT (event_id) DO UPDATE
CreateEventUpsert(rows, e, fault) ==
    IF fault THEN [err |-> "storage", rows |-> rows]
    ELSE IF \E i \in 1..Len(rows) : rows[i].EventID = e.EventID
         THEN [err |-> "", rows |-> [i \in 1..Len(rows) |->
                                       IF rows[i].EventID = e.EventID THEN e ELSE rows[i]]]
    ELSE [err |-> "", rows |-> Append(rows, e)]

\* a bug: the error of the INSERT is swallowed
CreateEventSilentFail(rows, e, fault) ==
    IF fault \/ UniqueViolation(rows, e) THEN [err |-> "", rows |-> rows]
    ELSE [err |-> "", rows |-> Append(rows, e)]

\* AuditRepository.CreateEvent: one INSERT, no update, no delete.  fault: the
\* backend rejects the statement (connection lost, context cancelled, ...)
CreateEvent(rows, e, fault) ==
    IF fault THEN [err |-> "storage", rows |-> rows]
    ELSE IF UniqueViolation(rows, e) THEN [err |-> "unique_violation", rows |-> rows]
    ELSE [err |-> "", rows |-> Append(rows, e)]

\* domain.AuditEventFilter (the fields GetEvents reads)
Filters ==
    [ EventID : {None, "e1"}, UserID : {None}, TransactionID : {None},
      ResourceID : {None}, StartTime : {NoTime}, EndTime : {NoTime},
      Limit : 0..MaxLimit, Offset : 0..MaxOffset ]

\* the WHERE clause GetEvents builds
Matches(e, f) ==
    /\ f.EventID # None => e.EventID = f.EventID
    /\ f.UserID # None => e.UserID = f.UserID
    /\ f.TransactionID # None => e.TransactionID = f.TransactionID
    /\ f.ResourceID # None => e.ResourceID = f.ResourceID
    /\ f.StartTime # NoTime => e.Timestamp >= f.StartTime
    /\ f.EndTime # NoTime => e.Timestamp <= f.EndTime

MatchingRows(rows, f) == {i \in 1..Len(rows) : Matches(rows[i], f)}

\* ORDER BY timestamp DESC: every arrangement of the row numbers S in which
\* timestamps do not increase (rows of equal timestamp come in any order)
RECURSIVE OrderByTimestampDesc(_, _)
OrderByTimestampDesc(rows, S) ==
    IF S = {} THEN {<<>>}
    ELSE LET top == {i \in S : \A j \in S : rows[i].Timestamp >= rows[j].Timestamp}
         IN UNION {{<<i>> \o rest : rest \in OrderByTimestampDesc(rows, S \ {i})} : i \in top}

Min(a, b) == IF a <= b THEN a ELSE b

\* a bug: the query has no OFFSET clause
LimitOffsetFromStart(ord, limit, offset) == SubSeq(ord, 1, Min(Len(ord), limit))

\* LIMIT $n OFFSET $m
LimitOffset(ord, limit, offset) == SubSeq(ord, offset + 1, Min(Len(ord), offset + limit))

\* a bug: has_more is true on a page that ends exactly at the last match
GetEventsHasMoreInclusive(rows, f, ord) ==
    LET totalCount == Cardinality(MatchingRows(rows, f))
        pageRows == LimitOffset(ord, f.Limit, f.Offset)
    IN [ Events |-> [k \in 1..Len(pageRows) |-> rows[pageRows[k]]],
         TotalCount |-> totalCount,
         PageSize |-> f.Limit,
         HasMore |-> totalCount >= f.Offset + f.Limit ]

\* a bug: the count is taken over the rows of the page
GetEventsCountPage(rows, f, ord) ==
    LET pageRows == LimitOffset(ord, f.Limit, f.Offset)
    IN [ Events |-> [k \in 1..Len(pageRows) |-> rows[pageRows[k]]],
         TotalCount |-> Len(pageRows),
         PageSize |-> f.Limit,
         HasMore |-> Len(pageRows) > f.Offset + f.Limit ]

\* AuditRepository.GetEvents, for one order ord the backend returns the rows in
GetEvents(rows, f, ord) ==
    LET totalCount == Cardinality(MatchingRows(rows, f))
        pageRows == LimitOffset(ord, f.Limit, f.Offset)
    IN [ Events |-> [k \in 1..Len(pageRows) |-> rows[pageRows[k]]],
         TotalCount |-> totalCount,
         PageSize |-> f.Limit,
         HasMore |-> totalCount > f.Offset + f.Limit ]

\* a bug: the query orders by timestamp ascending
GetLastEventSignatureOldest(rows, ord) ==
    IF Len(ord) = 0 THEN EmptySignature ELSE rows[ord[Len(ord)]].DigitalSignature

\* AuditRepository.GetLastEventSignature: ORDER BY timestamp DESC LIMIT 1
GetLastEventSignature(rows, ord) ==
    IF Len(ord) = 0 THEN EmptySignature ELSE rows[ord[1]].DigitalSignature

\* ------------------------------------------------------------ audit service
\* a bug: the service stores the event with the ids it came with
EnsureIDsKept(e, newID, now) == e

\* a bug: every call stamps the event anew
EnsureIDsRestamp(e, newID, now) ==
    LET e1 == IF e.EventID = NilUUID THEN [e EXCEPT !.EventID = newID] ELSE e
    IN [e1 EXCEPT !.CreatedAt = now, !.Timestamp = now]

\* ProcessAndStoreEvent, step 1: ensure ids and timestamps
EnsureIDs(e, newID, now) ==
    LET e1 == IF e.EventID = NilUUID THEN [e EXCEPT !.EventID = newID] ELSE e
        e2 == IF e1.CreatedAt = ZeroTime THEN [e1 EXCEPT !.CreatedAt = now] ELSE e1
    IN IF e2.Timestamp = ZeroTime THEN [e2 EXCEPT !.Timestamp = e2.CreatedAt] ELSE e2

\* a bug: the signer prints the timestamp with time.RFC3339Nano
SignEventNano(e, version) ==
    [e EXCEPT !.DigitalSignature =
                  GenerateDigitalSignature(UUIDString(e.EventID), UUIDString(e.UserID),
                                           e.ActionType, <<"ns", ToString(e.Timestamp)>>, e.Result),
              !.EncryptionKeyID = version]

\* a bug: the signer binds the service source as well, the verifier does not
SignEventWithSource(e, version) ==
    [e EXCEPT !.DigitalSignature =
                  GenerateDigitalSignature(UUIDString(e.EventID), UUIDString(e.UserID),
                                           e.ActionType \o <<e.ServiceSource>>,
                                           FormatRFC3339(e.Timestamp), e.Result),
              !.EncryptionKeyID = version]

\* a bug: the record is stamped with the version the service started with
SignEventInitialVersion(e, version) ==
    [e EXCEPT !.DigitalSignature =
                  GenerateDigitalSignature(UUIDString(e.EventID), UUIDString(e.UserID),
                                           e.ActionType, FormatRFC3339(e.Timestamp), e.Result),
              !.EncryptionKeyID = InitialKeyVersion]

\* ProcessAndStoreEvent, step 2: cryptographic signing
SignEvent(e, version) ==
    [e EXCEPT !.DigitalSignature =
                  GenerateDigitalSignature(UUIDString(e.EventID), UUIDString(e.UserID),
                                           e.ActionType, FormatRFC3339(e.Timestamp), e.Result),
              !.EncryptionKeyID = version]

\* a bug: only records stamped with the current key version are accepted
SignatureValidCurrentVersion(e) ==
    /\ e.EncryptionKeyID = currentVersion
    /\ VerifyDigitalSignature(UUIDString(e.EventID), UUIDString(e.UserID), e.ActionType,
                              FormatRFC3339(e.Timestamp), e.Result, e.DigitalSignature)

\* the check GetAuditTrail makes on one retrieved event
SignatureValid(e) ==
    VerifyDigitalSignature(UUIDString(e.EventID), UUIDString(e.UserID), e.ActionType,
                           FormatRFC3339(e.Timestamp), e.Result, e.DigitalSignature)

\* a bug: records that fail verification are left out of the page
VerifyPageSkipInvalid(page) ==
    LET good == {k \in 1..Len(page.Events) : SignatureValid(page.Events[k])}
        RECURSIVE Keep(_)
        Keep(k) == IF k > Len(page.Events) THEN <<>>
                   ELSE (IF k \in good THEN <<page.Events[k]>> ELSE <<>>) \o Keep(k + 1)
    IN [err |-> "", eventID |-> None, page |-> <<[page EXCEPT !.Events = Keep(1)]>>]

\* GetAuditTrail's verification loop over the page GetEvents returned
VerifyPage(page) ==
    LET bad == {k \in 1..Len(page.Events) : ~SignatureValid(page.Events[k])}
    IN IF bad = {} THEN [err |-> "", eventID |-> None, page |-> <<page>>]
       ELSE LET first == CHOOSE k \in bad : \A j \in bad : k <= j
            IN [err |-> "integrity", eventID |-> page.Events[first].EventID, page |-> <<>>]

\* AuditService.GetAuditTrail
GetAuditTrail(rows, f, ord, fault) ==
    IF fault THEN [err |-> "storage", eventID |-> None, page |-> <<>>]
    ELSE VerifyPage(GetEvents(rows, f, ord))

\* ------------------------------------------------------------ ingest pipeline
\* a bug: a constant pause
BackoffConstant(i) == 1

\* time.Sleep(time.Duration(i+1) * time.Second), in seconds
Backoff(i) == i + 1

\* an entry of hist: a ProcessAndStoreEvent call that returned nil ("ok") or an
\* error ("storage", "unique_violation") on attempt n, a sleep of n seconds, or
\* the "Dropping event after retries" log line
Ev(kind, n) == [kind |-> kind, n |-> n]

RECURSIVE Sum(_, _)
Sum(f, S) == IF S = {} THEN 0 ELSE LET x == CHOOSE y \in S : TRUE IN f[x] + Sum(f, S \ {x})

\* messages the bus has handed out so far, over all claims
TotalDelivered == Sum(delivered, Partitions)

\* a bug: the handler takes the next message while the current one is still
\* waiting for its retry (processMessage run in the background)
ReceiveEarly(p) ==
    /\ pc[p] \in {"recv", "sleep"}
    /\ TotalDelivered < MaxMsgs
    /\ \E v \in MsgValues : cur' = [cur EXCEPT ![p] = [offset |-> delivered[p] + 1, value |-> v]]
    /\ delivered' = [delivered EXCEPT ![p] = @ + 1]
    /\ pc' = [pc EXCEPT ![p] = "proc"]
    /\ auditEvent' = [auditEvent EXCEPT ![p] = NoEvent]
    /\ retry' = [retry EXCEPT ![p] = 0]
    /\ hist' = [hist EXCEPT ![p] = <<>>]
    /\ resp' = NoResp
    /\ UNCHANGED <<storeVars, currentVersion, uuidCounter, clock, marked, dispatched, tampered, extVars>>

\* ConsumeClaim: claim.Messages() yields the next message, at the next offset
Receive(p) ==
    /\ pc[p] = "recv"
    /\ ~cancelled
    /\ TotalDelivered < MaxMsgs
    /\ \E v \in MsgValues : cur' = [cur EXCEPT ![p] = [offset |-> delivered[p] + 1, value |-> v]]
    /\ delivered' = [delivered EXCEPT ![p] = @ + 1]
    /\ pc' = [pc EXCEPT ![p] = "proc"]
    /\ resp' = NoResp
    /\ UNCHANGED <<storeVars, currentVersion, uuidCounter, clock, auditEvent, retry, hist,
                   marked, dispatched, tampered, extVars>>

\* processMessage up to the retry loop: json.Unmarshal, mapToAuditEvent.  Both
\* time.Now() calls of NewAuditEvent fall into the same clock tick
Decode(p) ==
    /\ pc[p] = "proc"
    /\ IF ~JSONUnmarshal(cur[p].value).ok
       THEN /\ pc' = [pc EXCEPT ![p] = "mark"]
            /\ UNCHANGED <<auditEvent, uuidCounter, clock>>
       ELSE \E now \in clock..MaxTime :
              LET e == mapToAuditEvent(JSONUnmarshal(cur[p].value).raw, Topic(p),
                                       FreshUUID(uuidCounter + 1), now, now)
              IN /\ auditEvent' = [auditEvent EXCEPT ![p] = e]
                 /\ clock' = now
                 /\ uuidCounter' = IF e.EventID = FreshUUID(uuidCounter + 1)
                                   THEN uuidCounter + 1 ELSE uuidCounter
                 /\ pc' = [pc EXCEPT ![p] = "call"]
    /\ resp' = NoResp
    /\ UNCHANGED <<storeVars, currentVersion, delivered, cur, retry, hist, marked,
                   dispatched, tampered, extVars>>

\* AuditService.ProcessAndStoreEvent: ensure ids, sign, CreateEvent, and on
\* success asyncIndexEvent.  Returns the event as the call left it, the error
\* ("" for nil) and the ledger rows
ProcessAndStoreEvent(rows, e, newID, now, version, fault) ==
    LET event == SignEvent(EnsureIDs(e, newID, now), version)
        res == CreateEvent(rows, event, fault)
    IN [event |-> event, err |-> res.err, rows |-> res.rows]

\* what processMessage's loop does after attempt i returned err: stop, back off
\* and try again, or give up
AfterAttempt(i, err) ==
    IF err = "" THEN "success"
    ELSE IF i < maxRetries - 1 THEN "retry"
    ELSE "drop"

\* one iteration of processMessage's retry loop.  CurrentKeyVersion() takes the
\* registry's read lock; with session.Context() cancelled the INSERT fails
Attempt(p) ==
    /\ pc[p] = "call"
    /\ rot.pc = "idle"
    /\ \E fault \in (IF cancelled THEN {TRUE} ELSE BOOLEAN) :
         LET i == retry[p]
             r == ProcessAndStoreEvent(ledger, auditEvent[p], FreshUUID(uuidCounter + 1),
                                       clock, currentVersion, fault)
             todo == AfterAttempt(i, r.err)
         IN /\ auditEvent' = [auditEvent EXCEPT ![p] = r.event]
            /\ uuidCounter' = IF auditEvent[p].EventID = NilUUID THEN uuidCounter + 1
                              ELSE uuidCounter
            /\ ledger' = r.rows
            /\ IF r.err = ""
               THEN /\ committed' = Append(committed, r.event)
                    /\ origin' = Append(origin, [claim |-> p, offset |-> cur[p].offset])
                    /\ dispatched' = dispatched \cup {r.event}
               ELSE UNCHANGED <<committed, origin, dispatched>>
            /\ hist' = [hist EXCEPT ![p] =
                           CASE todo = "success" -> Append(@, Ev("ok", i + 1))
                             [] todo = "retry" -> Append(@, Ev(r.err, i + 1))
                             [] OTHER -> @ \o <<Ev(r.err, i + 1), Ev("dropped", 0)>>]
            /\ pc' = [pc EXCEPT ![p] = IF todo = "retry" THEN "sleep" ELSE "mark"]
    /\ resp' = NoResp
    /\ UNCHANGED <<currentVersion, clock, delivered, cur, retry, marked, tampered, extVars>>

\* the backoff between two attempts, then continue
Sleep(p) ==
    /\ pc[p] = "sleep"
    /\ hist' = [hist EXCEPT ![p] = Append(@, Ev("sleep", Backoff(retry[p])))]
    /\ retry' = [retry EXCEPT ![p] = @ + 1]
    /\ pc' = [pc EXCEPT ![p] = "call"]
    /\ resp' = NoResp
    /\ UNCHANGED <<storeVars, currentVersion, uuidCounter, clock, delivered, cur, auditEvent,
                   marked, dispatched, tampered, extVars>>

\* a bug: the offset is marked only when the event was committed
MarkOnlyCommitted(p) ==
    /\ pc[p] = "mark"
    /\ marked' = [marked EXCEPT ![p] = IF hist[p] # <<>> /\ hist[p][Len(hist[p])].kind = "ok"
                                       THEN Append(@, cur[p].offset) ELSE @]
    /\ pc' = [pc EXCEPT ![p] = "recv"]
    /\ cur' = [cur EXCEPT ![p] = NoMessage]
    /\ auditEvent' = [auditEvent EXCEPT ![p] = NoEvent]
    /\ retry' = [retry EXCEPT ![p] = 0]
    /\ hist' = [hist EXCEPT ![p] = <<>>]
    /\ resp' = NoResp
    /\ UNCHANGED <<storeVars, currentVersion, uuidCounter, clock, delivered, dispatched,
                   tampered, extVars>>

\* a bug: ConsumeClaim returns when processMessage gave a message up, and the
\* handler of the claim is gone
MarkStopOnDrop(p) ==
    /\ pc[p] = "mark"
    /\ IF hist[p] = <<>> \/ hist[p][Len(hist[p])].kind = "dropped"
       THEN /\ pc' = [pc EXCEPT ![p] = "stopped"]
            /\ UNCHANGED marked
       ELSE /\ pc' = [pc EXCEPT ![p] = "recv"]
            /\ marked' = [marked EXCEPT ![p] = Append(@, cur[p].offset)]
    /\ cur' = [cur EXCEPT ![p] = NoMessage]
    /\ auditEvent' = [auditEvent EXCEPT ![p] = NoEvent]
    /\ retry' = [retry EXCEPT ![p] = 0]
    /\ hist' = [hist EXCEPT ![p] = <<>>]
    /\ resp' = NoResp
    /\ UNCHANGED <<storeVars, currentVersion, uuidCounter, clock, delivered, dispatched,
                   tampered, extVars>>

\* ConsumeClaim: session.MarkMessage(message, "") after processMessage returned;
\* processMessage's locals are gone
Mark(p) ==
    /\ pc[p] = "mark"
    /\ marked' = [marked EXCEPT ![p] = Append(@, cur[p].offset)]
    /\ pc' = [pc EXCEPT ![p] = "recv"]
    /\ cur' = [cur EXCEPT ![p] = NoMessage]
    /\ auditEvent' = [auditEvent EXCEPT ![p] = NoEvent]
    /\ retry' = [retry EXCEPT ![p] = 0]
    /\ hist' = [hist EXCEPT ![p] = <<>>]
    /\ resp' = NoResp
    /\ UNCHANGED <<storeVars, currentVersion, uuidCounter, clock, delivered, dispatched,
                   tampered, extVars>>

\* ------------------------------------------------------------ read operations
\* a bug: an empty page is not told from a verified one
VerifyEventIntegrityFoundOnEmpty(rows, eventID, ord, fault) ==
    LET parsed == UUIDParse(eventID)
        filter == [EventID |-> parsed.id, UserID |-> None, TransactionID |-> None,
                   ResourceID |-> None, StartTime |-> NoTime, EndTime |-> NoTime,
                   Limit |-> 1, Offset |-> 0]
        r == GetAuditTrail(rows, filter, ord, fault)
    IN IF ~parsed.ok THEN [found |-> FALSE, err |-> "invalid event ID"]
       ELSE IF r.err # "" THEN [found |-> FALSE, err |-> r.err]
       ELSE [found |-> TRUE, err |-> ""]

\* AuditService.VerifyEventIntegrity, for one order ord of the backend's rows
VerifyEventIntegrity(rows, eventID, ord, fault) ==
    LET parsed == UUIDParse(eventID)
        filter == [EventID |-> parsed.id, UserID |-> None, TransactionID |-> None,
                   ResourceID |-> None, StartTime |-> NoTime, EndTime |-> NoTime,
                   Limit |-> 1, Offset |-> 0]
        r == GetAuditTrail(rows, filter, ord, fault)
    IN IF ~parsed.ok THEN [found |-> FALSE, err |-> "invalid event ID"]
       ELSE IF r.err # "" THEN [found |-> FALSE, err |-> r.err]
       ELSE IF Len(r.page[1].Events) = 0 THEN [found |-> FALSE, err |-> "event not found"]
       ELSE [found |-> TRUE, err |-> ""]

\* ids a caller asks VerifyEventIntegrity about
AskedEventIDs == {"bad", "e1", "g1"}

readFrame == <<storeVars, currentVersion, uuidCounter, clock, consumerVars, dispatched, tampered, extVars>>

\* a read runs in one step and its caller takes the result before anything else
\* happens: Return, or the next step of the pipeline, empties resp
Return ==
    /\ resp # NoResp
    /\ resp' = NoResp
    /\ UNCHANGED readFrame

\* a caller runs AuditRepository.GetEvents
DoGetEvents ==
    /\ resp = NoResp
    /\ \/ resp' = [NoResp EXCEPT !.op = "GetEvents", !.err = "storage"]
       \/ \E f \in Filters : \E ord \in OrderByTimestampDesc(ledger, MatchingRows(ledger, f)) :
            resp' = [NoResp EXCEPT !.op = "GetEvents", !.page = <<GetEvents(ledger, f, ord)>>,
                                    !.queried = GetEvents(ledger, f, ord).Events]
    /\ UNCHANGED readFrame

\* a caller runs AuditRepository.GetLastEventSignature
DoGetLastEventSignature ==
    /\ resp = NoResp
    /\ \/ resp' = [NoResp EXCEPT !.op = "GetLastEventSignature", !.err = "storage"]
       \/ \E ord \in OrderByTimestampDesc(ledger, 1..Len(ledger)) :
            resp' = [NoResp EXCEPT !.op = "GetLastEventSignature",
                                    !.signature = GetLastEventSignature(ledger, ord)]
    /\ UNCHANGED readFrame

\* a caller runs AuditService.GetAuditTrail
DoGetAuditTrail ==
    /\ resp = NoResp
    /\ \/ LET r == GetAuditTrail(ledger, CHOOSE f \in Filters : TRUE, <<>>, TRUE)
          IN resp' = [NoResp EXCEPT !.op = "GetAuditTrail", !.err = r.err,
                                     !.eventID = r.eventID, !.page = r.page]
       \/ \E f \in Filters : \E ord \in OrderByTimestampDesc(ledger, MatchingRows(ledger, f)) :
            LET r == GetAuditTrail(ledger, f, ord, FALSE)
            IN resp' = [NoResp EXCEPT !.op = "GetAuditTrail", !.err = r.err,
                                       !.eventID = r.eventID, !.page = r.page,
                                       !.queried = GetEvents(ledger, f, ord).Events]
    /\ UNCHANGED readFrame

\* a caller runs AuditService.VerifyEventIntegrity
DoVerifyEventIntegrity ==
    /\ resp = NoResp
    /\ \E id \in AskedEventIDs : \E fault \in BOOLEAN :
         \E ord \in OrderByTimestampDesc(ledger, {i \in 1..Len(ledger) : ledger[i].EventID = id}) :
           LET r == VerifyEventIntegrity(ledger, id, ord, fault)
           IN resp' = [NoResp EXCEPT !.op = "VerifyEventIntegrity", !.err = r.err,
                                      !.eventID = id, !.found = r.found]
    /\ UNCHANGED readFrame

Reads == DoGetEvents \/ DoGetLastEventSignature \/ DoGetAuditTrail \/ DoVerifyEventIntegrity
            \/ Return

\* ------------------------------------------------------------ tampering
\* values a database administrator may write into a bound column
TamperValues(field) ==
    CASE field = "EventID" -> {"e1", "e2"}
      [] field = "UserID" -> {"u1", NilUUID}
      [] field = "ActionType" -> {<<"LOGIN">>, <<"UNKNOWN">>}
      [] field = "Timestamp" -> Times
      [] field = "Result" -> {<<"PENDING">>, <<"SUCCESS">>}

BoundFields == {"EventID", "UserID", "ActionType", "Timestamp", "Result"}

\* an UPDATE of one bound column of one row, made behind the service's back
\* (the application itself has no such statement)
Tamper ==
    /\ tampered < MaxTamper
    /\ \E i \in 1..Len(ledger) : \E field \in BoundFields : \E v \in TamperValues(field) :
         /\ ledger[i][field] # v
         /\ field = "EventID" => \A j \in 1..Len(ledger) : ledger[j].EventID # v
         /\ ledger' = [ledger EXCEPT ![i][field] = v]
    /\ tampered' = tampered + 1
    /\ resp' = NoResp
    /\ UNCHANGED <<committed, origin, currentVersion, uuidCounter, clock, consumerVars,
                   dispatched, extVars>>

\* ------------------------------------------------------------ cancellation
\* the context passed to AuditConsumer.Start is cancelled: every session
\* context is cancelled with it and claim.Messages() yields nothing more
Cancel ==
    /\ ~cancelled
    /\ cancelled' = TRUE
    /\ cancelSnap' = [p \in Partitions |->
                        [pc |-> pc[p], offset |-> cur[p].offset, len |-> Len(hist[p])]]
    /\ resp' = NoResp
    /\ UNCHANGED <<storeVars, currentVersion, uuidCounter, clock, consumerVars, dispatched,
                   tampered, indexRuns, registryVars, query, archiveVars, cipherVars, driver>>

\* ------------------------------------------------------------ search projection
\* how SearchRepository.IndexEvent ends: nil, an error (of the client, of
\* Elasticsearch, or the 5 s deadline of asyncCtx passing), or a panic (as with
\* a nil esRepo)
IndexOutcomes == {"ok", "error", "panic"}

\* the goroutine of asyncIndexEvent for event e: one IndexEvent call, its log line
asyncIndexEvent(e, outcome) ==
    [ eventID |-> e.EventID,
      outcome |-> outcome,
      calls |-> 1,
      slept |-> 0,
      log |-> CASE outcome = "ok" -> ""
                [] outcome = "panic" -> "Panic in async index event"
                [] OTHER -> "Failed to index audit event" ]

\* a bug: a failed index call is compensated by deleting the ledger row
IndexTaskRollback ==
    \E e \in dispatched : \E outcome \in IndexOutcomes :
        /\ \A r \in indexRuns : r.eventID # e.EventID
        /\ indexRuns' = indexRuns \cup {asyncIndexEvent(e, outcome)}
        /\ ledger' = IF outcome = "ok" THEN ledger
                     ELSE SelectSeq(ledger, LAMBDA row : row.EventID # e.EventID)
        /\ UNCHANGED <<committed, origin, currentVersion, uuidCounter, clock, consumerVars,
                       dispatched, resp, tampered, cancelVars, registryVars,
                       query, archiveVars, cipherVars, driver>>

\* the goroutine started by asyncIndexEvent runs to its end
IndexTask ==
    \E e \in dispatched : \E outcome \in IndexOutcomes :
        /\ \A r \in indexRuns : r.eventID # e.EventID
        /\ indexRuns' = indexRuns \cup {asyncIndexEvent(e, outcome)}
        /\ UNCHANGED <<storeVars, currentVersion, uuidCounter, clock, consumerVars,
                       dispatched, resp, tampered, cancelVars, registryVars,
                       query, archiveVars, cipherVars, driver>>

\* ------------------------------------------------------------ key registry
\* key material: 32-byte keys, and one that is not
ValidKeys == {"c1", "c2", "r1"}
ConfigKeys == {<<>>, <<"c1">>, <<"c1", "c2">>, <<"short">>}
ConfigVersions == 0..(MaxVersion + 1)
NoKeys == [v \in {} |-> ""]

\* NewFieldEncryptor(keysBase64, currentVersion, hmacSecretBase64)
NewFieldEncryptor(keysBase64, version) ==
    LET ks == [v \in 1..Len(keysBase64) |-> keysBase64[v]]
    IN IF Len(keysBase64) = 0
       THEN [err |-> "at least one encryption key is required", keys |-> NoKeys, currentVersion |-> 0]
       ELSE IF \E v \in 1..Len(keysBase64) : keysBase64[v] \notin ValidKeys
       THEN [err |-> "key must be 32 bytes", keys |-> NoKeys, currentVersion |-> 0]
       ELSE IF version \notin DOMAIN ks
       THEN [err |-> "current version not found in keys", keys |-> NoKeys, currentVersion |-> 0]
       ELSE [err |-> "", keys |-> ks, currentVersion |-> version]

NoObservation == [op |-> "", version |-> 0, found |-> FALSE, key |-> ""]
RotIdle == [pc |-> "idle", key |-> "", version |-> 0, err |-> ""]
registryFrame == <<storeVars, uuidCounter, clock, consumerVars, dispatched, resp, tampered,
                   cancelVars, indexRuns, config, query, archiveVars, cipherVars,
                   driver>>

EncIdle == [pc |-> "idle", plain |-> "", key |-> "", version |-> 0]

\* a bug: e.mu.Lock() does not wait for readers
WriteLockIgnoresReaders == TRUE

\* e.mu.Lock() can be taken: no goroutine holds the read lock
WriteLockFree == enc.pc = "idle"

\* RotateKey(newKeyBase64, newVersion) up to e.mu.Lock(): a key that is not 32
\* bytes is refused; the write lock is taken when no reader holds the lock
\* (the readers other than Encrypt hold it for one step)
RotateKeyBegin ==
    /\ constructErr = ""
    /\ rot.pc = "idle"
    /\ WriteLockFree
    /\ rotations < MaxRotations
    /\ rotations' = rotations + 1
    /\ \E newKey \in {"r1", "short"} : \E newVersion \in 1..MaxVersion :
         rot' = IF newKey \in ValidKeys
                THEN [pc |-> "locked", key |-> newKey, version |-> newVersion, err |-> ""]
                ELSE [pc |-> "idle", key |-> newKey, version |-> newVersion,
                      err |-> "new key must be 32 bytes"]
    /\ UNCHANGED <<keys, currentVersion, constructErr, observed, registryFrame>>

\* a bug: the key is written to a copy of the map
RotateKeyStoreLost ==
    /\ rot.pc = "locked"
    /\ rot' = [rot EXCEPT !.pc = "keyset"]
    /\ UNCHANGED <<keys, currentVersion, constructErr, rotations, observed, registryFrame>>

\* e.keys[newVersion] = newKey
RotateKeyStore ==
    /\ rot.pc = "locked"
    /\ keys' = (rot.version :> rot.key) @@ keys
    /\ rot' = [rot EXCEPT !.pc = "keyset"]
    /\ UNCHANGED <<currentVersion, constructErr, rotations, observed, registryFrame>>

\* e.currentVersion = newVersion; return nil (the deferred Unlock)
RotateKeySetCurrent ==
    /\ rot.pc = "keyset"
    /\ currentVersion' = rot.version
    /\ rot' = [rot EXCEPT !.pc = "idle"]
    /\ UNCHANGED <<keys, constructErr, rotations, observed, registryFrame>>

RotateKey == RotateKeyBegin \/ RotateKeyStore \/ RotateKeySetCurrent

\* what a reader sees of version v while it holds the read lock
Observe(op, v) ==
    [op |-> op, version |-> v, found |-> v \in DOMAIN keys,
     key |-> IF v \in DOMAIN keys THEN keys[v] ELSE ""]

\* Encrypt: key := e.keys[e.currentVersion]; version := e.currentVersion
DoEncrypt ==
    /\ constructErr = ""
    /\ rot.pc = "idle"
    /\ observed' = Observe("Encrypt", currentVersion)
    /\ UNCHANGED <<keys, currentVersion, constructErr, rot, rotations, registryFrame>>

\* Decrypt(ciphertext, keyVersion): key, exists := e.keys[keyVersion]
DoDecrypt ==
    /\ constructErr = ""
    /\ rot.pc = "idle"
    /\ \E v \in ConfigVersions : observed' = Observe("Decrypt", v)
    /\ UNCHANGED <<keys, currentVersion, constructErr, rot, rotations, registryFrame>>

\* CurrentKeyVersion()
DoCurrentKeyVersion ==
    /\ constructErr = ""
    /\ rot.pc = "idle"
    /\ observed' = Observe("CurrentKeyVersion", currentVersion)
    /\ UNCHANGED <<keys, currentVersion, constructErr, rot, rotations, registryFrame>>

RegistryReads == DoEncrypt \/ DoDecrypt \/ DoCurrentKeyVersion

\* ------------------------------------------------------------ decoration
\* values a downstream processor may write into a column the signature does
\* not bind
DecorateValues(field) ==
    CASE field = "Metadata" -> {<<[decodable |-> TRUE, event_id |-> "absent",
                                   event_type |-> <<"indexed">>, user_id |-> "absent"]>>}
      [] field = "ResourceID" -> {"r9"}
      [] field = "TransactionID" -> {"t9"}

UnboundFields == {"Metadata", "ResourceID", "TransactionID"}

\* an UPDATE of one column outside the binding, made outside the service
Decorate ==
    /\ tampered < MaxTamper
    /\ \E i \in 1..Len(ledger) : \E field \in UnboundFields : \E v \in DecorateValues(field) :
         /\ ledger[i][field] # v
         /\ ledger' = [ledger EXCEPT ![i][field] = v]
    /\ tampered' = tampered + 1
    /\ resp' = NoResp
    /\ UNCHANGED <<committed, origin, currentVersion, uuidCounter, clock, consumerVars,
                   dispatched, extVars>>

\* ------------------------------------------------------------ filtered queries
\* domain.AuditEventFilter with every field (a nil pointer, an empty slice
\* and an empty string mean "not set")
NoFilter ==
    [ EventID |-> None, UserID |-> None, TransactionID |-> None, ResourceID |-> None,
      StartTime |-> NoTime, EndTime |-> NoTime, ActionTypes |-> {}, ResourceTypes |-> {},
      Result |-> <<>>, ServiceSource |-> None, IPAddress |-> None,
      Limit |-> 0, Offset |-> 0 ]

\* filters a caller of GetEvents passes: one predicate at a time, and every
\* page window over all events and over the events of one user
QueryFilters ==
    {[NoFilter EXCEPT !.Limit = MaxLimit, !.EventID = "e1"],
     [NoFilter EXCEPT !.Limit = MaxLimit, !.StartTime = MaxTime - 1],
     [NoFilter EXCEPT !.Limit = MaxLimit, !.ActionTypes = {<<"LOGIN">>}],
     [NoFilter EXCEPT !.Limit = MaxLimit, !.ResourceTypes = {"ACCOUNT"}],
     [NoFilter EXCEPT !.Limit = MaxLimit, !.Result = <<"SUCCESS">>],
     [NoFilter EXCEPT !.Limit = MaxLimit, !.ServiceSource = Topic("p0")],
     [NoFilter EXCEPT !.Limit = MaxLimit, !.IPAddress = "10.0.0.1"]}
    \cup {[NoFilter EXCEPT !.UserID = u, !.Limit = l, !.Offset = o] :
             u \in {None, NilUUID}, l \in 0..MaxLimit, o \in 0..MaxOffset}

NoQuery == [op |-> "", err |-> "", filter |-> NoFilter, page |-> <<>>, events |-> <<>>]

queryFrame == <<storeVars, currentVersion, uuidCounter, clock, consumerVars, dispatched,
                tampered, resp, cancelVars, indexRuns, registryVars, archiveVars,
                cipherVars, driver>>

\* a caller runs AuditRepository.GetEvents with filter f
DoQueryEvents ==
    /\ query = NoQuery
    /\ resp = NoResp
    /\ \/ query' = [NoQuery EXCEPT !.op = "GetEvents", !.err = "storage"]
       \/ \E f \in QueryFilters : \E ord \in OrderByTimestampDesc(ledger, MatchingRows(ledger, f)) :
            query' = [NoQuery EXCEPT !.op = "GetEvents", !.filter = f,
                                     !.page = <<GetEvents(ledger, f, ord)>>,
                                     !.events = GetEvents(ledger, f, ord).Events]
    /\ UNCHANGED queryFrame

\* successive GetEvents calls with the limit of f and offsets k*Limit,
\* (k+1)*Limit, ... while the page says there is more; ords[k+1] is the order
\* the backend returns the rows in for the call at offset k*Limit
RECURSIVE ReadPages(_, _, _, _)
ReadPages(rows, f, ords, k) ==
    LET page == GetEvents(rows, [f EXCEPT !.Offset = k * f.Limit], ords[k + 1])
    IN IF page.HasMore /\ k + 1 < Len(ords)
       THEN page.Events \o ReadPages(rows, f, ords, k + 1)
       ELSE page.Events

\* a caller pages through the result of a filter on an unchanged ledger
DoReadPages ==
    /\ query = NoQuery
    /\ resp = NoResp
    /\ \E f \in {g \in QueryFilters : g.Limit >= 1 /\ g.Offset = 0} :
         \E ords \in [1..(Len(ledger) + 1) -> OrderByTimestampDesc(ledger, MatchingRows(ledger, f))] :
            query' = [NoQuery EXCEPT !.op = "ReadPages", !.filter = f,
                                     !.events = ReadPages(ledger, f, ords, 0)]
    /\ UNCHANGED queryFrame

\* the caller takes the result of the query
QueryReturn ==
    /\ query # NoQuery
    /\ query' = NoQuery
    /\ UNCHANGED queryFrame

\* ------------------------------------------------------------ GetEvents, statement by statement
\* GetEvents: SELECT COUNT(*) FROM (filtered query)
CountEvents(rows, f) == Cardinality(MatchingRows(rows, f))

\* GetEvents: the filtered query with ORDER BY timestamp DESC LIMIT OFFSET,
\* scanned into events
SelectEvents(rows, f, ord) ==
    LET pageRows == LimitOffset(ord, f.Limit, f.Offset)
    IN [k \in 1..Len(pageRows) |-> rows[pageRows[k]]]

\* filters of the callers that are followed statement by statement
WindowFilters ==
    {[NoFilter EXCEPT !.Limit = l, !.Offset = o] : l \in {1, MaxLimit}, o \in 0..MaxOffset}

\* GetEvents up to the end of the count statement, which may fail
QueryCount ==
    /\ query = NoQuery
    /\ resp = NoResp
    /\ \/ query' = [NoQuery EXCEPT !.op = "GetEvents", !.err = "storage"]
       \/ \E f \in WindowFilters :
            query' = [NoQuery EXCEPT !.op = "counted", !.filter = f,
                         !.page = <<[Events |-> <<>>, TotalCount |-> CountEvents(ledger, f),
                                     PageSize |-> f.Limit, HasMore |-> FALSE]>>]
    /\ UNCHANGED queryFrame

\* GetEvents from the page statement, which may fail, to the return: it reads
\* the table as it is now
QuerySelect ==
    /\ query.op = "counted"
    /\ \/ query' = [NoQuery EXCEPT !.op = "GetEvents", !.err = "storage"]
       \/ \E ord \in OrderByTimestampDesc(ledger, MatchingRows(ledger, query.filter)) :
            LET f == query.filter
                events == SelectEvents(ledger, f, ord)
                totalCount == query.page[1].TotalCount
            IN query' = [query EXCEPT !.op = "GetEvents", !.events = events,
                            !.page = <<[Events |-> events, TotalCount |-> totalCount,
                                        PageSize |-> f.Limit,
                                        HasMore |-> totalCount > f.Offset + f.Limit]>>]
    /\ UNCHANGED queryFrame

\* ------------------------------------------------------------ archive
\* the calendar day of a clock reading
DateOf(t) == t \div TicksPerDay

BatchIDs == {"b1", "b2"}

\* fmt.Sprintf("%d/%02d/%02d/%s.json", year, month, day, batchID)
ArchiveKey(now, batchID) == <<ToString(DateOf(now)), "/", batchID, ".json">>

\* json.Marshal(events)
JSONMarshalEvents(events) == [json |-> events]

NoArchive == [key |-> <<>>, empty |-> FALSE, wrote |-> FALSE, err |-> ""]

\* s3 PutObject: the body becomes the object under the key, whether or not
\* there was one
PutObject(bucket, key, body) ==
    {o \in bucket : o.key # key} \cup {[key |-> key, body |-> body]}

\* a bug: an empty batch is uploaded like any other
ArchiveBatchWritesEmpty(bucket, events, batchID, now, fault) ==
    IF fault
    THEN [objects |-> bucket, key |-> ArchiveKey(now, batchID), wrote |-> FALSE, err |-> "upload"]
    ELSE [objects |-> PutObject(bucket, ArchiveKey(now, batchID), JSONMarshalEvents(events)),
          key |-> ArchiveKey(now, batchID), wrote |-> TRUE, err |-> ""]

\* ArchiveRepository.ArchiveBatch at clock reading now; fault: the upload fails
ArchiveBatch(bucket, events, batchID, now, fault) ==
    IF Len(events) = 0 THEN [objects |-> bucket, key |-> <<>>, wrote |-> FALSE, err |-> ""]
    ELSE IF fault
    THEN [objects |-> bucket, key |-> ArchiveKey(now, batchID), wrote |-> FALSE, err |-> "upload"]
    ELSE [objects |-> PutObject(bucket, ArchiveKey(now, batchID), JSONMarshalEvents(events)),
          key |-> ArchiveKey(now, batchID), wrote |-> TRUE, err |-> ""]

\* a caller archives the ledger as it is, its oldest row, or nothing
DoArchiveBatch ==
    /\ archives < MaxArchives
    /\ \E events \in {<<>>, ledger, SubSeq(ledger, 1, Min(Len(ledger), 1))} :
       \E batchID \in BatchIDs : \E now \in clock..MaxTime : \E fault \in BOOLEAN :
         LET r == ArchiveBatch(objects, events, batchID, now, fault)
         IN /\ objects' = r.objects
            /\ lastArchive' = [key |-> r.key, empty |-> Len(events) = 0, wrote |-> r.wrote,
                                err |-> r.err]
            /\ clock' = IF Len(events) = 0 THEN clock ELSE now
    /\ archives' = archives + 1
    /\ resp' = NoResp
    /\ UNCHANGED <<storeVars, currentVersion, uuidCounter, consumerVars, dispatched, tampered,
                   cancelVars, indexRuns, registryVars, query, cipherVars, driver>>

\* ------------------------------------------------------------ field encryption
Plaintexts == {"p1", "p2"}

\* aesGCM.Seal under key: the ciphertext, base64 encoded
Seal(key, plaintext) == [key |-> key, plain |-> plaintext]

\* FieldEncryptor.Decrypt(ciphertext, keyVersion) on the key map ks: aesGCM.Open
\* fails unless the key is the one the ciphertext was sealed with
Decrypt(ks, ciphertext, keyVersion) ==
    IF keyVersion \notin DOMAIN ks THEN [plain |-> "", err |-> "key version not found"]
    ELSE IF ks[keyVersion] # ciphertext.key THEN [plain |-> "", err |-> "failed to decrypt"]
    ELSE [plain |-> ciphertext.plain, err |-> ""]

NoOpened == [op |-> "", cipher |-> Seal("", ""), version |-> 0, plain |-> "", err |-> ""]

cipherFrame == <<storeVars, uuidCounter, clock, consumerVars, dispatched, resp, tampered,
                 cancelVars, indexRuns, registryVars, currentVersion, query, archiveVars, driver>>

\* Encrypt(plaintext): e.mu.RLock(); key := e.keys[e.currentVersion]
EncryptBegin ==
    /\ constructErr = ""
    /\ enc.pc = "idle"
    /\ rot.pc = "idle"
    /\ Cardinality(sealed) < MaxSeals
    /\ \E p \in Plaintexts :
         enc' = [pc |-> "rlocked", plain |-> p, key |-> keys[currentVersion], version |-> 0]
    /\ UNCHANGED <<sealed, opened, cipherFrame>>

\* Encrypt: version := e.currentVersion; e.mu.RUnlock(); seal and return
EncryptEnd ==
    /\ enc.pc = "rlocked"
    /\ sealed' = sealed \cup {[cipher |-> Seal(enc.key, enc.plain), version |-> currentVersion]}
    /\ enc' = EncIdle
    /\ UNCHANGED <<opened, cipherFrame>>

\* a caller decrypts what Encrypt returned to it, with the version it returned
DoOpen ==
    /\ constructErr = ""
    /\ rot.pc = "idle"
    /\ \E x \in sealed :
         LET r == Decrypt(keys, x.cipher, x.version)
         IN opened' = [op |-> "Decrypt", cipher |-> x.cipher, version |-> x.version,
                       plain |-> r.plain, err |-> r.err]
    /\ UNCHANGED <<enc, sealed, cipherFrame>>

\* ------------------------------------------------------------ consumer driver
DriverStart == [pc |-> "consume", errors |-> 0, ret |-> ""]

\* how consumerGroup.Consume returns: nil (the session ended) or an error
ConsumeResults == {"", "consume error"}

\* a bug: Start gives up at the first error of Consume
StartReturnsOnError(err, ctxErr) ==
    IF err = "" THEN [pc |-> "consume", ret |-> ""]
    ELSE [pc |-> "returned", ret |-> IF ctxErr THEN "nil" ELSE err]

\* the body of Start's loop once Consume has returned err, ctxErr telling
\* whether ctx.Err() is non-nil: call Consume again, return nil, or log and pause
StartAfterConsume(err, ctxErr) ==
    IF err = "" THEN [pc |-> "consume", ret |-> ""]
    ELSE IF ctxErr THEN [pc |-> "returned", ret |-> "nil"]
    ELSE [pc |-> "pause", ret |-> ""]

driverFrame == <<storeVars, currentVersion, uuidCounter, clock, consumerVars, dispatched,
                 tampered, cancelVars, indexRuns, registryVars, query, archiveVars, cipherVars>>

\* Consume returns, which it does once every ConsumeClaim of the session has
\* returned, and Start goes on from there
ConsumeReturns ==
    /\ driver.pc = "consume"
    /\ \A p \in Partitions : pc[p] = "recv"
    /\ \E err \in ConsumeResults :
         LET next == StartAfterConsume(err, cancelled)
         IN /\ (err # "" /\ ~cancelled) => driver.errors < MaxConsumeErrors
            /\ driver' = [pc |-> next.pc, ret |-> next.ret,
                          errors |-> IF err # "" /\ ~cancelled THEN driver.errors + 1
                                     ELSE driver.errors]
    /\ resp' = NoResp
    /\ UNCHANGED driverFrame

\* time.Sleep(time.Second * 5) ends and the loop calls Consume again
StartPause ==
    /\ driver.pc = "pause"
    /\ driver' = [driver EXCEPT !.pc = "consume"]
    /\ resp' = NoResp
    /\ UNCHANGED driverFrame

\* ------------------------------------------------------------ specification
\* the service as the tests and main build it: one configured key, version 1
DefaultConfig == [keys |-> <<"c1">>, currentVersion |-> InitialKeyVersion]

InitPipeline ==
    /\ ledger = <<>>
    /\ committed = <<>>
    /\ origin = <<>>
    /\ uuidCounter = 0
    /\ clock = 1
    /\ delivered = [p \in Partitions |-> 0]
    /\ pc = [p \in Partitions |-> "recv"]
    /\ cur = [p \in Partitions |-> NoMessage]
    /\ auditEvent = [p \in Partitions |-> NoEvent]
    /\ retry = [p \in Partitions |-> 0]
    /\ hist = [p \in Partitions |-> <<>>]
    /\ marked = [p \in Partitions |-> <<>>]
    /\ dispatched = {}
    /\ resp = NoResp
    /\ tampered = 0
    /\ cancelled = FALSE
    /\ cancelSnap = [p \in Partitions |-> [pc |-> "", offset |-> 0, len |-> 0]]
    /\ indexRuns = {}
    /\ rot = RotIdle
    /\ rotations = 0
    /\ observed = NoObservation
    /\ query = NoQuery
    /\ objects = {}
    /\ archives = 0
    /\ lastArchive = NoArchive
    /\ enc = EncIdle
    /\ sealed = {}
    /\ opened = NoOpened
    /\ driver = DriverStart

\* the encryptor as NewFieldEncryptor leaves it for configuration c
InitRegistry(c) ==
    /\ config = c
    /\ keys = NewFieldEncryptor(c.keys, c.currentVersion).keys
    /\ currentVersion = NewFieldEncryptor(c.keys, c.currentVersion).currentVersion
    /\ constructErr = NewFieldEncryptor(c.keys, c.currentVersion).err

Init == InitPipeline /\ InitRegistry(DefaultConfig)

\* any configuration of the encryptor
InitAnyConfig ==
    /\ InitPipeline
    /\ \E ks \in ConfigKeys : \E v \in ConfigVersions :
          InitRegistry([keys |-> ks, currentVersion |-> v])

Ingest == \E p \in Partitions : Receive(p) \/ Decode(p) \/ Attempt(p) \/ Sleep(p) \/ Mark(p)

\* everything the consumer, the store and the service do
Next == Ingest \/ Reads

Spec == Init /\ [][Next]_vars

\* the ingest pipeline alone
SpecIngest == Init /\ [][Ingest]_vars

\* the ingest pipeline when every call the handler makes returns: the decoder,
\* the store call of an attempt, the sleep between attempts and MarkMessage
\* all end; whether the bus delivers another message is left open
IngestReturns == \A p \in Partitions : WF_vars(Decode(p) \/ Attempt(p) \/ Sleep(p) \/ Mark(p))

SpecIngestFair == Init /\ [][Ingest]_vars /\ IngestReturns

\* the pipeline and the audit-trail read, with a database administrator who
\* changes stored rows
NextTamper == Ingest \/ DoGetAuditTrail \/ Return \/ Tamper

SpecTamper == Init /\ [][NextTamper]_vars

\* the pipeline while the consumer is being shut down
NextCancel == Ingest \/ Cancel

SpecCancel == Init /\ [][NextCancel]_vars

\* the pipeline and the goroutines that feed the search projection
NextIndex == Ingest \/ IndexTask

SpecIndex == Init /\ [][NextIndex]_vars

\* the same, with callers of the audit-trail read
NextIndexRead == Ingest \/ IndexTask \/ DoGetAuditTrail \/ Return

SpecIndexRead == Init /\ [][NextIndexRead]_vars

\* the key registry alone, under any configuration
NextRegistry == RotateKey \/ RegistryReads

SpecRegistry == InitAnyConfig /\ [][NextRegistry]_vars

\* the pipeline while keys are rotated
NextRotate == Ingest \/ RotateKey

SpecRotate == Init /\ [][NextRotate]_vars

\* the pipeline and the audit-trail read, with a downstream processor that
\* decorates stored rows
NextDecorate == Ingest \/ DoGetAuditTrail \/ Return \/ Decorate

SpecDecorate == Init /\ [][NextDecorate]_vars

\* the pipeline and a caller of VerifyEventIntegrity, with a database
\* administrator who changes stored rows
NextVerify == Ingest \/ DoVerifyEventIntegrity \/ Return \/ Tamper

SpecVerify == Init /\ [][NextVerify]_vars

\* the key registry with callers who encrypt and decrypt while keys are rotated
NextSeal == RotateKey \/ EncryptBegin \/ EncryptEnd \/ DoOpen

SpecSeal == InitAnyConfig /\ [][NextSeal]_vars

\* the pipeline running while a caller's GetEvents is between its two
\* statements; the caller takes the page before the pipeline moves on
NextQuerySplit ==
    \/ Ingest /\ query.op \in {"", "counted"}
    \/ QueryCount
    \/ QuerySelect
    \/ QueryReturn

SpecQuerySplit == Init /\ [][NextQuerySplit]_vars

\* the consumer as Start drives it: the handlers run while Consume does
NextStart == (Ingest /\ driver.pc = "consume") \/ Cancel \/ ConsumeReturns \/ StartPause

SpecStart == Init /\ [][NextStart]_vars

\* the pipeline and a caller who archives batches of ledger rows
NextArchive == Ingest \/ DoArchiveBatch

SpecArchive == Init /\ [][NextArchive]_vars

\* the pipeline and a caller of the filtered ledger query, who takes each
\* result before the pipeline moves on
NextQuery == (Ingest /\ query = NoQuery) \/ DoQueryEvents \/ DoReadPages \/ QueryReturn

SpecQuery == Init /\ [][NextQuery]_vars

\* ================================================================ claims
Rows == 1..Len(ledger)
Last(h) == h[Len(h)]

\* the bound fields in which a stored row differs from what was committed
ChangedBoundFields(i) == {f \in BoundFields : ledger[i][f] # committed[i][f]}

\* C1: without out-of-band changes, every stored row carries the signature its
\* bound fields verify against, and GetAuditTrail never ends with an integrity
\* error: every page it returns holds verified records only.
C1_CommittedEventsVerify ==
    /\ \A i \in Rows : SignatureValid(ledger[i])
    /\ resp.op = "GetAuditTrail" =>
          /\ resp.err # "integrity"
          /\ resp.err = "" => /\ resp.page # <<>>
                              /\ \A k \in 1..Len(resp.page[1].Events) :
                                    SignatureValid(resp.page[1].Events[k])

\* a full page of two ingested events was read back and verified, one of them
\* under an id assigned at ingest
C1_Witness ==
    /\ resp.op = "GetAuditTrail"
    /\ resp.err = ""
    /\ Len(resp.page[1].Events) = 2
    /\ \E k \in 1..2 : resp.page[1].Events[k].EventID = "g1"

\* C2: a stored row that differs from the committed record in exactly one bound
\* field (event_id, user_id, action_type, timestamp, result) fails verification
\* against its stored signature.
C2_AnyBoundFieldChangeDetected ==
    \A i \in Rows : Cardinality(ChangedBoundFields(i)) = 1 => ~SignatureValid(ledger[i])

\* C3: GetAuditTrail returns a page only when every record of the queried page
\* verified, and then the whole queried page; otherwise it returns no page and
\* an integrity error naming the first record of the queried page that failed.
C3_NoPartialPage ==
    (resp.op = "GetAuditTrail" /\ resp.err # "storage") =>
        LET bad == {k \in 1..Len(resp.queried) : ~SignatureValid(resp.queried[k])}
        IN IF bad = {}
           THEN /\ resp.err = ""
                /\ resp.page # <<>>
                /\ resp.page[1].Events = resp.queried
           ELSE /\ resp.err = "integrity"
                /\ resp.page = <<>>
                /\ \E k \in bad : /\ \A j \in bad : k <= j
                                  /\ resp.eventID = resp.queried[k].EventID

\* a page of two records whose first verifies and whose second was changed: the
\* call failed naming the second
C3_Witness ==
    /\ resp.op = "GetAuditTrail"
    /\ resp.err = "integrity"
    /\ Len(resp.queried) = 2
    /\ SignatureValid(resp.queried[1])
    /\ resp.eventID = resp.queried[2].EventID

\* C4: no step of the consumer, the store or the service removes or changes a
\* stored row: every row is where it was, with every field as it was.
C4_AppendOnly ==
    [][/\ Len(ledger') >= Len(ledger)
       /\ \A i \in Rows : ledger'[i] = ledger[i]]_vars

\* two committed records, every field as committed, after a read of one of them
C4_Witness ==
    /\ Len(ledger) = 2
    /\ ledger = committed
    /\ resp.op = "VerifyEventIntegrity"
    /\ resp.found

\* C5: no two rows share an event_id; a ProcessAndStoreEvent that returned nil
\* inserted the one row carrying its event's id, and one that found the id in
\* the ledger failed.
C5_UniqueEventID ==
    /\ \A i, j \in Rows : ledger[i].EventID = ledger[j].EventID => i = j
    /\ \A p \in Partitions :
          (hist[p] # <<>> /\ Last(hist[p]).kind = "ok") =>
              \E i \in Rows : /\ ledger[i].EventID = auditEvent[p].EventID
                              /\ origin[i] = [claim |-> p, offset |-> cur[p].offset]
    /\ \A p \in Partitions : \A k \in 1..Len(hist[p]) :
          hist[p][k].kind = "unique_violation" =>
              \E i \in Rows : /\ ledger[i].EventID = auditEvent[p].EventID
                              /\ origin[i] # [claim |-> p, offset |-> cur[p].offset]

\* a redelivered message was refused by the primary key and the ledger holds
\* the one row of its first delivery
C5_Witness ==
    \E p \in Partitions :
        /\ hist[p] # <<>>
        /\ hist[p][1].kind = "unique_violation"
        /\ Cardinality({i \in Rows : ledger[i].EventID = auditEvent[p].EventID}) = 1

IsCall(e) == e.kind \in {"ok", "storage", "unique_violation"}
IsFail(e) == e.kind \in {"storage", "unique_violation"}
InProcess(p) == pc[p] \in {"proc", "call", "sleep", "mark"}
UpTo(n) == [k \in 1..n |-> k]

\* C6: an append refused because the event_id is already in the ledger ends the
\* processing of the message as a success: it is the last thing processMessage
\* does for the message (no sleep, no further attempt, no "dropped" report).
C6_DuplicateIsSuccess ==
    \A p \in Partitions : \A k \in 1..Len(hist[p]) :
        hist[p][k].kind = "unique_violation" => (k = Len(hist[p]) /\ pc[p] = "mark")

\* C7: the calls of ProcessAndStoreEvent made for one message are attempts 1,
\* 2, 3 at most; nothing follows a call that succeeded; a failed attempt k < 3
\* is followed by a sleep of k seconds and then attempt k + 1; a failed third
\* attempt is followed by the "dropped" report and nothing else.
C7_RetryDiscipline ==
    \A p \in Partitions :
        LET h == hist[p] IN
        /\ \A k \in 1..Len(h) :
              LET e == h[k] IN
              /\ k = 1 => (IsCall(e) /\ e.n = 1)
              /\ IsCall(e) => e.n \in 1..3
              /\ e.kind = "ok" => k = Len(h)
              /\ (IsFail(e) /\ e.n < 3) =>
                    IF k = Len(h) THEN pc[p] = "sleep" ELSE h[k + 1] = Ev("sleep", e.n)
              /\ (IsFail(e) /\ e.n = 3) => (Len(h) = k + 1 /\ h[k + 1] = Ev("dropped", 0))
              /\ e.kind = "sleep" =>
                    /\ k > 1 /\ IsFail(h[k - 1]) /\ h[k - 1].n = e.n
                    /\ IF k = Len(h) THEN pc[p] = "call"
                       ELSE (IsCall(h[k + 1]) /\ h[k + 1].n = e.n + 1)
              /\ e.kind = "dropped" => (k = Len(h) /\ k > 1 /\ IsFail(h[k - 1]))
        /\ (h # <<>> /\ Last(h).kind \in {"ok", "dropped"}) => pc[p] = "mark"

\* three failed attempts with sleeps of 1 and 2 seconds between them, then dropped
C7_Witness ==
    \E p \in Partitions :
        /\ Len(hist[p]) = 6
        /\ hist[p][2] = Ev("sleep", 1)
        /\ hist[p][4] = Ev("sleep", 2)
        /\ hist[p][6] = Ev("dropped", 0)

\* C8: on every claim the marked offsets are, once each and in order, exactly
\* those of the delivered messages whose processing has ended; the message
\* being processed is not marked.
C8_MarkedAfterProcessing ==
    \A p \in Partitions :
        marked[p] = UpTo(IF InProcess(p) THEN delivered[p] - 1 ELSE delivered[p])

\* two messages of one claim are marked, one committed and one not
C8_Witness ==
    \E p \in Partitions :
        /\ marked[p] = <<1, 2>>
        /\ pc[p] = "recv"
        /\ Len(ledger) = 1

\* C9: the handler's steps on a message that does not decode are: return from
\* processMessage without any ProcessAndStoreEvent call, then MarkMessage of
\* its offset; neither changes the ledger or hands an event to the indexer.
C9_UndecodableSkipped ==
    [][\A p \in Partitions :
          (InProcess(p) /\ ~cur[p].value.decodable /\ pc'[p] # pc[p]) =>
              /\ ledger' = ledger
              /\ dispatched' = dispatched
              /\ hist[p] = <<>> /\ hist'[p] = <<>>
              /\ \/ pc[p] = "proc" /\ pc'[p] = "mark" /\ marked'[p] = marked[p]
                 \/ pc[p] = "mark" /\ pc'[p] = "recv"
                      /\ marked'[p] = Append(marked[p], cur[p].offset)]_vars

\* an undecodable message that followed a committed one has been skipped and is
\* about to be marked
C9_Witness ==
    \E p \in Partitions :
        /\ pc[p] = "mark"
        /\ ~cur[p].value.decodable
        /\ cur[p].offset = 2
        /\ Len(ledger) = 1

\* C10: while a claim's handler works on a message, every earlier message of the
\* claim has been marked, and every row ingested from the claim comes from an
\* earlier message or from this one; rows of one claim are in offset order.
C10_SequentialPerClaim ==
    /\ \A p \in Partitions :
          InProcess(p) =>
              /\ marked[p] = UpTo(cur[p].offset - 1)
              /\ \A i \in 1..Len(origin) :
                    origin[i].claim = p => origin[i].offset <= cur[p].offset
    /\ \A i, j \in 1..Len(origin) :
          (i < j /\ origin[i].claim = origin[j].claim) => origin[i].offset < origin[j].offset

\* two messages of one claim were committed, the second after a retry
C10_Witness ==
    \E p \in Partitions :
        /\ Len(origin) = 2
        /\ origin[1] = [claim |-> p, offset |-> 1]
        /\ origin[2] = [claim |-> p, offset |-> 2]
        /\ Len(hist[p]) = 3

\* C11: a handler that was in the backoff between two attempts when the
\* consumer's context was cancelled makes no further ProcessAndStoreEvent call
\* for that message.
C11_CancelAbortsBackoff ==
    \A p \in Partitions :
        (cancelled /\ cancelSnap[p].pc = "sleep" /\ cur[p].offset = cancelSnap[p].offset) =>
            \A k \in 1..Len(hist[p]) : k > cancelSnap[p].len => ~IsCall(hist[p][k])

\* the results GetAuditTrail can give on the ledger as it is
TrailResults(rows) ==
    {GetAuditTrail(rows, CHOOSE f \in Filters : TRUE, <<>>, TRUE)} \cup
    UNION {{GetAuditTrail(rows, f, ord, FALSE) :
                ord \in OrderByTimestampDesc(rows, MatchingRows(rows, f))} : f \in Filters}

\* C12: a step of an index goroutine, however its IndexEvent call ends, changes
\* neither the ledger nor anything a handler or a reader has been given; a
\* ProcessAndStoreEvent call returns nil exactly when its append put the event
\* into the ledger; a GetAuditTrail call returns what the ledger and the
\* signature check give.
C12_IndexFailuresIsolated ==
    [][/\ indexRuns' # indexRuns =>
            /\ ledger' = ledger
            /\ consumerVars' = consumerVars
            /\ resp' = resp
       /\ \A p \in Partitions :
            (pc[p] = "call" /\ pc'[p] # "call") =>
                LET call == hist'[p][Len(hist[p]) + 1]
                IN IF call.kind = "ok"
                   THEN ledger' = Append(ledger, auditEvent'[p])
                   ELSE ledger' = ledger
       /\ (resp = NoResp /\ resp'.op = "GetAuditTrail") =>
            /\ ledger' = ledger
            /\ [err |-> resp'.err, eventID |-> resp'.eventID, page |-> resp'.page]
                  \in TrailResults(ledger)]_vars

\* an index call has failed or panicked for an event that is in the ledger, and
\* a later audit-trail read returned that event
C12_Witness ==
    /\ resp.op = "GetAuditTrail"
    /\ resp.err = ""
    /\ \E r \in indexRuns :
         /\ r.outcome = "panic"
         /\ \E k \in 1..Len(resp.queried) : resp.queried[k].EventID = r.eventID
    /\ \E r \in indexRuns : r.outcome = "error"

\* C13: every event handed to asyncIndexEvent, and every event an index
\* goroutine has worked on, is in the ledger.
C13_ProjectionBehindLedger ==
    /\ \A e \in dispatched : \E i \in Rows : ledger[i] = e
    /\ \A r \in indexRuns : \E i \in Rows : ledger[i].EventID = r.eventID

\* an event was indexed, and a message whose appends all failed was dropped
\* without anything being handed to the indexer
C13_Witness ==
    /\ Len(ledger) = 1
    /\ \E r \in indexRuns : r.outcome = "ok" /\ r.eventID = ledger[1].EventID
    /\ \E p \in Partitions : hist[p] # <<>> /\ Last(hist[p]) = Ev("dropped", 0)

\* C14: an index goroutine whose IndexEvent call failed has made a further
\* call after a pause before it ended.
C14_IndexRetried ==
    \A r \in indexRuns : r.outcome # "ok" => (r.calls > 1 /\ r.slept > 0)

\* C15: whatever RotateKey calls have been made or are under way, every row of
\* the ledger passes the signature check of the read path.
C15_RotationKeepsRecordsValid ==
    \A i \in Rows : SignatureValid(ledger[i])

\* a record committed under version 1 is in the ledger and a rotation to
\* another version has completed
C15_Witness ==
    /\ Len(ledger) >= 1
    /\ ledger[1].EncryptionKeyID = 1
    /\ currentVersion = 2
    /\ rot.pc = "idle"
    /\ SignatureValid(ledger[1])

ConfigValid(c) ==
    /\ Len(c.keys) >= 1
    /\ \A v \in 1..Len(c.keys) : c.keys[v] \in ValidKeys
    /\ c.currentVersion \in 1..Len(c.keys)

\* C16: NewFieldEncryptor fails exactly when the configuration is unusable, in
\* particular when the current version is not among the keys; in a constructed
\* registry current_version names a present key in every state, also inside
\* RotateKey, and whenever Encrypt or CurrentKeyVersion read it; a RotateKey
\* that returns an error changes neither the keys nor current_version.
C16_CurrentVersionHasKey ==
    /\ [](/\ constructErr = "" <=> ConfigValid(config)
          /\ config.currentVersion \notin 1..Len(config.keys) => constructErr # ""
          /\ constructErr = "" => currentVersion \in DOMAIN keys
          /\ observed.op \in {"Encrypt", "CurrentKeyVersion"} =>
                (observed.found /\ observed.key \in ValidKeys))
    /\ [][(rot' # rot /\ rot'.err # "") =>
              (keys' = keys /\ currentVersion' = currentVersion /\ rot'.pc = "idle")]_vars

\* a registry built with one key was rotated to a version it did not have, and
\* Encrypt then read the new version with its key
C16_Witness ==
    /\ Len(config.keys) = 1
    /\ rotations = 1
    /\ rot.pc = "idle"
    /\ observed = [op |-> "Encrypt", version |-> 2, found |-> TRUE, key |-> "r1"]

\* C17: a row enters the ledger carrying the registry's current version of the
\* moment it was signed, and every row's encryption_key_id names a key of the
\* registry and the row verifies.
C17_KeyIdIsCurrentAtSigning ==
    /\ [](\A i \in Rows : ledger[i].EncryptionKeyID \in DOMAIN keys /\ SignatureValid(ledger[i]))
    /\ [][Len(ledger') > Len(ledger) =>
              /\ ledger'[Len(ledger')].EncryptionKeyID = currentVersion
              /\ currentVersion \in DOMAIN keys
              /\ rot.pc = "idle"]_vars

\* one record was ingested before the rotation to version 2 and one after it
C17_Witness ==
    /\ Len(ledger) = 2
    /\ ledger[1].EncryptionKeyID = 1
    /\ ledger[2].EncryptionKeyID = 2
    /\ currentVersion = 2
    /\ SignatureValid(ledger[1]) /\ SignatureValid(ledger[2])

\* C18: every row's digital_signature is the MAC of its binding string under
\* the registry key its encryption_key_id names.
C18_SignedWithVersionedKey ==
    \A i \in Rows :
        /\ ledger[i].EncryptionKeyID \in DOMAIN keys
        /\ ledger[i].DigitalSignature =
              [key |-> keys[ledger[i].EncryptionKeyID],
               data |-> BindingString(UUIDString(ledger[i].EventID), UUIDString(ledger[i].UserID),
                                      ledger[i].ActionType, FormatRFC3339(ledger[i].Timestamp),
                                      ledger[i].Result)]

\* records that carry a signature: rows as stored, rows as committed, and the
\* events handlers hold after signing
SignedRecords ==
    {ledger[i] : i \in Rows} \cup {committed[i] : i \in 1..Len(committed)}
        \cup {auditEvent[p] : p \in {q \in Partitions : auditEvent[q].DigitalSignature # EmptySignature}}

SameBinding(a, b) == \A f \in BoundFields : a[f] = b[f]

\* C19: two signed records that agree on event_id, user_id, action_type,
\* timestamp and result carry the same signature and get the same verdict,
\* whatever their other fields; a row whose other fields were changed after
\* commit still verifies, and GetAuditTrail reports no integrity error for it.
C19_OnlyBoundFieldsSigned ==
    /\ \A a, b \in SignedRecords :
          SameBinding(a, b) =>
              /\ a.DigitalSignature = b.DigitalSignature
              /\ SignatureValid(a) <=> SignatureValid(b)
    /\ \A i \in Rows : SignatureValid(ledger[i])
    /\ resp.op = "GetAuditTrail" => resp.err # "integrity"

\* a row whose metadata, resource_id or transaction_id was changed after commit
\* has been returned by GetAuditTrail, and a handler holds a signed event of
\* another source with the same binding as a row
C19_Witness ==
    /\ resp.op = "GetAuditTrail"
    /\ resp.err = ""
    /\ \E k \in 1..Len(resp.queried) : \E i \in Rows :
          resp.queried[k] = ledger[i] /\ ledger[i] # committed[i]
    /\ \E p \in Partitions : \E i \in Rows :
          /\ auditEvent[p].DigitalSignature # EmptySignature
          /\ SameBinding(auditEvent[p], ledger[i])
          /\ auditEvent[p].ServiceSource # ledger[i].ServiceSource

\* C20: the events of a GetEvents page are in descending order of timestamp
\* and, where timestamps are equal, in descending order of event_id.
C20_TieBreakByEventID ==
    (resp.op = "GetEvents" /\ resp.err = "") =>
        \A k \in 1..(Len(resp.queried) - 1) :
            \/ resp.queried[k].Timestamp > resp.queried[k + 1].Timestamp
            \/ /\ resp.queried[k].Timestamp = resp.queried[k + 1].Timestamp
               /\ UUIDRank(resp.queried[k].EventID) > UUIDRank(resp.queried[k + 1].EventID)

\* ------------------------------------------------------------ C21 .. C24
\* what a filter asks for: every predicate it sets
Satisfies(e, f) ==
    /\ f.EventID # None => e.EventID = f.EventID
    /\ f.UserID # None => e.UserID = f.UserID
    /\ f.TransactionID # None => e.TransactionID = f.TransactionID
    /\ f.ResourceID # None => e.ResourceID = f.ResourceID
    /\ f.StartTime # NoTime => e.Timestamp >= f.StartTime
    /\ f.EndTime # NoTime => e.Timestamp <= f.EndTime
    /\ f.ActionTypes # {} => e.ActionType \in f.ActionTypes
    /\ f.ResourceTypes # {} => e.ResourceType \in f.ResourceTypes
    /\ f.Result # <<>> => e.Result = f.Result
    /\ f.ServiceSource # None => e.ServiceSource = f.ServiceSource
    /\ f.IPAddress # None => e.IPAddress = f.IPAddress

Asked(f) == {i \in Rows : Satisfies(ledger[i], f)}

\* the filter sets none of action types, resource types, result, service
\* source, IP address
IdentityAndTimeOnly(f) ==
    /\ f.ActionTypes = {} /\ f.ResourceTypes = {} /\ f.Result = <<>>
    /\ f.ServiceSource = None /\ f.IPAddress = None

DistinctTimestamps(S) ==
    \A i, j \in S : i # j => ledger[i].Timestamp # ledger[j].Timestamp

C22_EveryPredicateApplied ==
    (query.op = "GetEvents" /\ query.err = "")
    => /\ \A k \in 1..Len(query.events) : Satisfies(query.events[k], query.filter)
       /\ query.page[1].TotalCount = Cardinality(Asked(query.filter))

\* C23: has_more of a page is TRUE exactly when total_count exceeds the
\* offset plus the number of records the page holds
C23_HasMore ==
    (query.op = "GetEvents" /\ query.err = "")
    => (query.page[1].HasMore
          <=> query.page[1].TotalCount > query.filter.Offset + Len(query.page[1].Events))

\* C23 witness: a page of one record that says there is more, behind it one
\* that says there is not
C23_Witness ==
    /\ query.op = "GetEvents" /\ query.err = ""
    /\ query.filter.Limit = 1 /\ query.filter.Offset = 0
    /\ Len(query.page[1].Events) = 1
    /\ query.page[1].HasMore
    /\ \E ord \in OrderByTimestampDesc(ledger, MatchingRows(ledger, query.filter)) :
          LET next == GetEvents(ledger, [query.filter EXCEPT !.Offset = 1], ord)
          IN Len(next.Events) = 1 /\ ~next.HasMore

LacksRequired(e) ==
    \/ e.DigitalSignature = EmptySignature
    \/ e.EventID = NilUUID
    \/ e.UserID = NilUUID
    \/ e.Timestamp = ZeroTime
    \/ e.Result = <<>>

\* C25: CreateEvent fails, and leaves the ledger as it was, for every record
\* that lacks a signature, an event id, a user id, a timestamp or a result: no
\* such record is ever in the ledger
C25_RequiredFieldsEnforced == \A i \in Rows : ~LacksRequired(ledger[i])

\* the rows committed for the message claim p is handling
RowsOf(p) == {i \in Rows : origin[i] = [claim |-> p, offset |-> cur[p].offset]}

\* processMessage has returned for the decodable message of claim p
Processed(p) == pc[p] = "mark" /\ cur[p].value.decodable

\* C26: a message that decodes as a map is never rejected by normalization,
\* whatever keys it has: it reaches ProcessAndStoreEvent, and when no write of
\* it was refused by the store exactly one event is committed for it, with a
\* non-nil event id, non-zero timestamp and created_at, and a signature that
\* is not empty and verifies
C26_DecodableAlwaysCommitted ==
    \A p \in Partitions :
        /\ Cardinality(RowsOf(p)) <= 1
        /\ Processed(p)
           => /\ hist[p] # <<>> /\ IsCall(hist[p][1])
              /\ (\A k \in 1..Len(hist[p]) : ~IsFail(hist[p][k]))
                 => /\ Cardinality(RowsOf(p)) = 1
                    /\ \A i \in RowsOf(p) :
                          /\ ledger[i].EventID # NilUUID
                          /\ ledger[i].Timestamp # ZeroTime
                          /\ ledger[i].CreatedAt # ZeroTime
                          /\ ledger[i].DigitalSignature # EmptySignature
                          /\ SignatureValid(ledger[i])

\* C26 witness: a message with none of event_id, event_type, user_id, and one
\* whose event_id is the nil UUID, are both committed
C26_Witness ==
    \E p, q \in Partitions :
        /\ Processed(p) /\ Processed(q)
        /\ cur[p].value.event_id = "absent" /\ cur[p].value.event_type = <<>>
        /\ cur[p].value.user_id = "absent"
        /\ cur[q].value.event_id = NilUUID
        /\ hist[p] = <<Ev("ok", 1)>> /\ hist[q] = <<Ev("ok", 1)>>
        /\ Cardinality(RowsOf(p)) = 1 /\ Cardinality(RowsOf(q)) = 1

\* C27: the event committed for message m on topic t has service_source t,
\* result PENDING, m's event_type as action type, m's user_id when that is a
\* well-formed UUID and the nil UUID otherwise, m's event_id when that is a
\* well-formed non-nil UUID and a freshly assigned id otherwise, and the
\* serialization of the whole map as metadata
C27_MappedFields ==
    \A p \in Partitions : \A i \in RowsOf(p) :
        Processed(p) =>
            LET m == cur[p].value
                e == ledger[i]
            IN /\ e.ServiceSource = Topic(p)
               /\ e.Result = <<"PENDING">>
               /\ m.event_type # <<>> => e.ActionType = m.event_type
               /\ e.UserID = (IF m.user_id \in WellFormedUUIDs THEN m.user_id ELSE NilUUID)
               /\ IF m.event_id \in WellFormedUUIDs \ {NilUUID}
                  THEN e.EventID = m.event_id
                  ELSE e.EventID \in {FreshUUID(n) : n \in 1..uuidCounter}
               /\ e.Metadata = <<m>>

\* C27 witness: on the transactions topic a message with a nil event_id and a
\* malformed user_id is committed next to one that carries both ids
C27_Witness ==
    /\ Processed("p1") /\ RowsOf("p1") # {}
    /\ cur["p1"].value.event_id = NilUUID /\ cur["p1"].value.user_id = "bad"
    /\ Processed("p0") /\ RowsOf("p0") # {}
    /\ cur["p0"].value.event_id = "e1" /\ cur["p0"].value.user_id = "u1"

HoldsVerified(id) ==
    \E i \in Rows : ledger[i].EventID = id /\ SignatureValid(ledger[i])

\* C29: VerifyEventIntegrity answers true exactly when the ledger holds a
\* record with the id and its signature verifies; for a malformed id, an
\* absent record, a record that fails verification and a failing store it
\* answers false with an error
C29_VerifyEventIntegrity ==
    resp.op = "VerifyEventIntegrity"
    => /\ resp.found => (resp.err = "" /\ HoldsVerified(resp.eventID))
       /\ ~resp.found => resp.err # ""
       /\ (HoldsVerified(resp.eventID) /\ resp.err # "storage") => resp.found
       /\ resp.eventID \notin WellFormedUUIDs => ~resp.found
       /\ (\A i \in Rows : ledger[i].EventID # resp.eventID) => ~resp.found
       /\ (\E i \in Rows : ledger[i].EventID = resp.eventID /\ ~SignatureValid(ledger[i]))
             => ~resp.found

\* C29 witness: the record asked about is in the ledger with a changed user
\* id or action, and the answer is false with the integrity error
C29_Witness ==
    /\ resp.op = "VerifyEventIntegrity"
    /\ \E i \in Rows : /\ ledger[i].EventID = resp.eventID
                       /\ ledger[i] # committed[i]
                       /\ ~SignatureValid(ledger[i])
    /\ ~resp.found /\ resp.err \notin {"", "storage", "event not found", "invalid event ID"}

\* ------------------------------------------------------------ C30
\* C30: archive objects are write-once: an object written by ArchiveBatch
\* stays in the bucket with the body it was written with, and an ArchiveBatch
\* call whose key is already taken (same batch id, same day) returns an error
C30_ArchiveWriteOnce ==
    [][/\ \A o \in objects : o \in objects'
       /\ (archives' # archives /\ \E o \in objects : o.key = lastArchive'.key)
             => lastArchive'.err # ""]_vars

\* ------------------------------------------------------------ C31
\* C31: an ArchiveBatch call with an empty batch returns no error and leaves
\* the bucket as it was
C31_EmptyBatchIsNoOp ==
    [][(archives' # archives /\ lastArchive'.empty)
          => (objects' = objects /\ lastArchive'.err = "" /\ ~lastArchive'.wrote)]_vars

\* C31 witness: an empty batch was archived after a batch that left an object
C31_Witness ==
    /\ archives = 2
    /\ lastArchive.empty /\ lastArchive.err = ""
    /\ Cardinality(objects) = 1

\* ------------------------------------------------------------ C32
\* C32: when every call the handler makes returns, every message delivered on
\* a claim is eventually marked, dropped or not, and the handler is then ready
\* for the next message of the claim
C32_IngestMakesProgress ==
    \A p \in Partitions : \A n \in 1..MaxMsgs :
        (delivered[p] >= n) ~> (pc[p] = "recv" /\ \E k \in 1..Len(marked[p]) : marked[p][k] = n)

\* C32 witness: the first message of a claim left no row (it was dropped or
\* undecodable), and the second one is committed and marked
C32_Witness ==
    \E p \in Partitions :
        /\ marked[p] = <<1, 2>>
        /\ pc[p] = "recv"
        /\ \A i \in Rows : origin[i] # [claim |-> p, offset |-> 1]
        /\ \E i \in Rows : origin[i] = [claim |-> p, offset |-> 2]

\* ------------------------------------------------------------ C33, C34
\* C33: what Encrypt returned stays decryptable, whatever RotateKey calls were
\* made since, one with an installed version number included: Decrypt of the
\* ciphertext with its version returns the plaintext and no error
C33_CiphertextStaysDecryptable ==
    opened.op = "Decrypt" => (opened.err = "" /\ opened.plain = opened.cipher.plain)

\* C34: the version Encrypt returns is the version of the key the ciphertext
\* was sealed with: at the moment Encrypt returns, the registry holds that key
\* under that version
C34_EncryptSnapshotIsAtomic ==
    [][\A x \in sealed' \ sealed :
          x.version \in DOMAIN keys /\ keys[x.version] = x.cipher.key]_vars

\* C34 witness: Encrypt returned once before and once after a rotation to a
\* new version, each time with the key of the version it returned
C34_Witness ==
    /\ rotations = 1 /\ rot.pc = "idle" /\ rot.err = ""
    /\ \E x, y \in sealed :
          /\ x.version # y.version
          /\ x.cipher.key # y.cipher.key
          /\ keys[x.version] = x.cipher.key /\ keys[y.version] = y.cipher.key

\* ------------------------------------------------------------ C35
\* claim p makes a ProcessAndStoreEvent call in this step
AttemptStep(p) == pc[p] = "call" /\ Len(hist'[p]) > Len(hist[p])

\* C35: every append attempt after the first one for a message carries the
\* event id, timestamp and created_at the attempt before it carried, none of
\* them nil or zero, and the attempts of one message leave at most one row
C35_RetriesCarrySameIdentity ==
    /\ [](\A p \in Partitions : Cardinality(RowsOf(p)) <= 1)
    /\ [][\A p \in Partitions :
            (AttemptStep(p) /\ retry[p] > 0)
            => /\ auditEvent'[p].EventID = auditEvent[p].EventID
               /\ auditEvent'[p].Timestamp = auditEvent[p].Timestamp
               /\ auditEvent'[p].CreatedAt = auditEvent[p].CreatedAt
               /\ auditEvent'[p].EventID # NilUUID
               /\ auditEvent'[p].Timestamp # ZeroTime
               /\ auditEvent'[p].CreatedAt # ZeroTime]_vars

\* C35 witness: a message with a nil event id is committed by its third
\* attempt, later than it was decoded, under the id its first attempt gave it
C35_Witness ==
    \E p \in Partitions :
        /\ Processed(p) /\ cur[p].value.event_id = NilUUID
        /\ Len(hist[p]) = 5 /\ hist[p][5] = Ev("ok", 3)
        /\ \E i \in RowsOf(p) : ledger[i].EventID = auditEvent[p].EventID
                                 /\ ledger[i].Timestamp < clock

\* ------------------------------------------------------------ C36
\* C36: whenever processMessage reports "Dropping event after retries" for an
\* event, the ledger holds no record with that event's id
C36_DroppedEventNotInLedger ==
    \A p \in Partitions :
        (hist[p] # <<>> /\ Last(hist[p]).kind = "dropped")
        => \A i \in Rows : ledger[i].EventID # auditEvent[p].EventID

\* ------------------------------------------------------------ C37
\* C37: a page GetEvents returns never holds more records than its own
\* total_count less the offset (for an offset up to total_count), also when
\* events are appended between the count statement and the page statement
C37_PageWithinTotalCount ==
    (query.op = "GetEvents" /\ query.err = ""
        /\ query.filter.Offset <= query.page[1].TotalCount)
    => Len(query.page[1].Events) <= query.page[1].TotalCount - query.filter.Offset

\* ------------------------------------------------------------ C38
\* C38: AuditConsumer.Start does not return while its context is live, an
\* error of Consume then leads to a pause and another Consume call, and when
\* Start has returned it has returned nil and the context is cancelled
C38_StartEndsOnlyOnCancel ==
    /\ [](driver.pc = "returned" => (cancelled /\ driver.ret = "nil"))
    /\ [][(driver.pc = "consume" /\ driver'.errors > driver.errors) => driver'.pc = "pause"]_vars
    /\ [][driver.pc = "pause" => driver'.pc \in {"pause", "consume"}]_vars

\* C38 witness: Consume failed twice while the context was live, events were
\* committed after that, and Start returned after the cancellation
C38_Witness ==
    /\ driver.pc = "returned" /\ driver.ret = "nil"
    /\ driver.errors = MaxConsumeErrors
    /\ cancelled
    /\ ledger # <<>>

====
